---- MODULE Spec2Model ----
(***************************************************************************)
(* QR attendance (app3.py): the token registry, the active-slot setting,   *)
(* the attendance ledger and the /submit and /admin/* request handlers.    *)
(*                                                                         *)
(* Text values (form fields, slot names, PINs) are sequences of symbols;   *)
(* the symbol " " is a whitespace character, any other symbol is a run of  *)
(* non-whitespace characters.  The empty sequence is Python's "" and also  *)
(* stands for None (both are falsy wherever the code tests them).          *)
(*                                                                         *)
(* Every handler is cut at its database accesses: each sqlite3 call opens  *)
(* its own connection and commits on its own, and the server handles       *)
(* requests in threads, so other requests may run between two accesses.    *)
(***************************************************************************)
EXTENDS Integers, Sequences, FiniteSets, TLC

VARIABLES clock, settings, tokens, attendance, sqlite_sequence, session,
          req, response

vars == <<clock, settings, tokens, attendance, sqlite_sequence, session,
          req, response>>

---------------------------------------------------------------------------
(* Bounds of the model *)

MaxTime == 601

MaxTokens == 2

MaxInserts == 2

MaxReqs == 2

---------------------------------------------------------------------------
(* Configuration (src/app3.py:9-14, the defaults) *)

QR_SECRET == "qr-secret"

ADMIN_PASSWORD == <<"admin123">>

TEACHER_PIN == <<"0000">>

QR_TTL_SECONDS == 600

None == <<>>

---------------------------------------------------------------------------
(* Inputs the clients may send *)

WS == " "

Slots == {<<"classA">>, <<"classB">>}

SlotInputs == Slots \cup {<<WS, "classA", WS>>, <<WS>>, <<>>}

Passwords == {ADMIN_PASSWORD, <<"letmein">>}

Devices ==
  { [ip |-> <<"10.0.0.1">>, ua |-> <<"Firefox">>],
    [ip |-> <<"10.0.0.2">>, ua |-> <<"Firefox">>] }

EmptyForm == [student_name |-> <<>>, roll |-> <<>>, teacher_pin |-> <<>>]

PostForms ==
  { [student_name |-> <<"Ann">>, roll |-> <<"1">>, teacher_pin |-> <<"0000">>],
    [student_name |-> <<"Bob">>, roll |-> <<"2">>, teacher_pin |-> <<"0000">>],
    [student_name |-> <<"Ann">>, roll |-> <<"1">>, teacher_pin |-> <<"0000", WS>>],
    [student_name |-> <<"Ann">>, roll |-> <<"1">>, teacher_pin |-> <<"1234">>] }

Forms(method) == IF method = "POST" THEN PostForms ELSE {EmptyForm}

Reqs == 1..MaxReqs

(* The instants at which something happens: second 0 and the seconds from *)
(* one TTL later on.                                                       *)
Instants == {t \in 0..MaxTime : t = 0 \/ t >= QR_TTL_SECONDS}

---------------------------------------------------------------------------
(* str.strip() *)

RECURSIVE LStrip(_)
LStrip(s) == IF s # <<>> /\ Head(s) = WS THEN LStrip(Tail(s)) ELSE s

RECURSIVE RStrip(_)
RStrip(s) ==
  IF s # <<>> /\ s[Len(s)] = WS THEN RStrip(SubSeq(s, 1, Len(s) - 1)) ELSE s

Strip(s) == RStrip(LStrip(s))

---------------------------------------------------------------------------
(* Token codec: URLSafeTimedSerializer(QR_SECRET).  A token string is the  *)
(* payload, the timestamp of signing and the HMAC over both.               *)

Sign(key, payload, ts) == <<key, payload, ts>>

make_token(slot, now) ==
  [payload |-> [slot |-> slot], ts |-> now,
   sig |-> Sign(QR_SECRET, [slot |-> slot], now)]

(* the empty string, and a string that carries no signature *)
NoToken == [payload |-> [slot |-> <<>>], ts |-> 0, sig |-> <<>>]

Garbage == [payload |-> [slot |-> <<"x">>], ts |-> 0, sig |-> <<>>]

decode_token_late(token, now) ==
  IF token.sig # Sign(QR_SECRET, token.payload, token.ts)
    THEN [err |-> "BadSignature", data |-> [slot |-> <<>>]]
  ELSE IF now - token.ts > QR_TTL_SECONDS + 1 \/ now - token.ts < 0
    THEN [err |-> "SignatureExpired", data |-> [slot |-> <<>>]]
  ELSE [err |-> "", data |-> token.payload]

decode_token_unsealed_ts(token, now) ==
  IF \A t \in 0..MaxTime : token.sig # Sign(QR_SECRET, token.payload, t)
    THEN [err |-> "BadSignature", data |-> [slot |-> <<>>]]
  ELSE IF now - token.ts > QR_TTL_SECONDS \/ now - token.ts < 0
    THEN [err |-> "SignatureExpired", data |-> [slot |-> <<>>]]
  ELSE [err |-> "", data |-> token.payload]

decode_token(token, now) ==
  IF token.sig # Sign(QR_SECRET, token.payload, token.ts)
    THEN [err |-> "BadSignature", data |-> [slot |-> <<>>]]
  ELSE IF now - token.ts > QR_TTL_SECONDS \/ now - token.ts < 0
    THEN [err |-> "SignatureExpired", data |-> [slot |-> <<>>]]
  ELSE [err |-> "", data |-> token.payload]

---------------------------------------------------------------------------
(* Database helpers *)

(* settings is the set of rows (key, value) of the table; key is its      *)
(* primary key.                                                            *)
get_setting(key) ==
  IF \E row \in settings : row.key = key
    THEN (CHOOSE row \in settings : row.key = key).value
    ELSE None

set_setting_if_absent(key, value) ==
  settings' = IF \E row \in settings : row.key = key
                THEN settings
                ELSE settings \cup {[key |-> key, value |-> value]}

set_setting(key, value) ==
  settings' = {row \in settings : row.key # key}
                \cup {[key |-> key, value |-> value]}

clear_setting(key) ==
  settings' = {row \in settings : row.key # key}

store_token_one_per_slot(tab, token, slot, now) ==
  Append(SelectSeq(tab, LAMBDA row : row.slot # slot),
         [token |-> token, slot |-> slot, created_at |-> now])

(* INSERT OR REPLACE on the primary key token: a row with the same token   *)
(* is deleted, the new row gets the next rowid.                            *)
store_token(tab, token, slot, now) ==
  Append(SelectSeq(tab, LAMBDA row : row.token # token),
         [token |-> token, slot |-> slot, created_at |-> now])

(* SELECT ... WHERE slot=? and fetchone(): the table is scanned in rowid   *)
(* order, so the row returned is the oldest one stored for the slot.       *)
get_token_for_slot_newest(tab, slot) ==
  LET rows == SelectSeq(tab, LAMBDA row : row.slot = slot)
  IN  IF rows = <<>> THEN None
      ELSE <<rows[Len(rows)].token, rows[Len(rows)].created_at>>

get_token_for_slot(tab, slot) ==
  LET rows == SelectSeq(tab, LAMBDA row : row.slot = slot)
  IN  IF rows = <<>> THEN None
      ELSE <<rows[1].token, rows[1].created_at>>

make_device_cid_ua_only(ip, ua) == <<"sha256", ua>>

(* sha256 of "ip|ua": the digest stands for the string it was made from *)
make_device_cid(ip, ua) == <<"sha256", ip \o <<"|">> \o ua>>

RECURSIVE Reverse(_)
Reverse(s) == IF s = <<>> THEN <<>> ELSE Append(Reverse(Tail(s)), Head(s))

query_records_all_slots(tab, slot) == Reverse(tab)

(* query_records(slot=slot): the full rows, most recent first *)
query_records(tab, slot) ==
  IF slot # <<>>
    THEN Reverse(SelectSeq(tab, LAMBDA row : row.slot = slot))
    ELSE Reverse(tab)

insert_record_upsert(tab, id, name, roll, slot, now, device_cid, ip, ua) ==
  Append(SelectSeq(tab, LAMBDA row : ~(row.slot = slot /\ row.roll = roll)),
         [id |-> id, student_name |-> name, roll |-> roll, slot |-> slot,
          timestamp |-> now, device_cid |-> device_cid, ip |-> ip,
          user_agent |-> ua])

insert_record(tab, id, name, roll, slot, now, device_cid, ip, ua) ==
  Append(tab, [id |-> id, student_name |-> name, roll |-> roll, slot |-> slot,
               timestamp |-> now, device_cid |-> device_cid, ip |-> ip,
               user_agent |-> ua])

clear_records_one_row(tab, all_records, slot) ==
  IF tab = <<>> THEN <<>>
  ELSE IF all_records THEN Tail(tab)
  ELSE IF slot # <<>> /\ tab[1].slot = slot THEN Tail(tab)
  ELSE tab

clear_records(tab, all_records, slot) ==
  IF all_records THEN <<>>
  ELSE IF slot # <<>> THEN SelectSeq(tab, LAMBDA row : row.slot # slot)
  ELSE tab

(* df[df["device_cid"] == device_cid] is not empty *)
already_recorded_wrong_column(df, device_cid) ==
  df # <<>> /\ SelectSeq(df, LAMBDA row : row.ip = device_cid) # <<>>

already_recorded(df, device_cid) ==
  df # <<>> /\ SelectSeq(df, LAMBDA row : row.device_cid = device_cid) # <<>>

---------------------------------------------------------------------------
(* State after init_db() on a fresh database, nobody logged in *)

IdleReq ==
  [pc |-> "idle", token |-> NoToken,
   ip |-> <<>>, ua |-> <<>>, slot |-> <<>>, student_name |-> <<>>,
   roll |-> <<>>, device_cid |-> <<>>]

Init ==
  /\ clock = 0
  /\ settings = {}
  /\ tokens = <<>>
  /\ attendance = <<>>
  /\ sqlite_sequence = 0
  /\ session = FALSE
  /\ req = [r \in Reqs |-> IdleReq]
  /\ response = [status |-> 0, body |-> ""]

---------------------------------------------------------------------------
(* Time passes *)

Tick ==
  /\ \E t \in Instants :
       /\ t > clock
       /\ \A u \in Instants : u > clock => t <= u
       /\ clock' = t
  /\ response' = [status |-> 0, body |-> ""]
  /\ UNCHANGED <<settings, tokens, attendance, sqlite_sequence, session, req>>

---------------------------------------------------------------------------
(* response is what the step just taken sent to its client; a step that    *)
(* sends nothing (time passing, a handler going on) leaves it empty.       *)
Response(status, body) == [status |-> status, body |-> body]

redirect(target) == Response(302, target)

(* not a response: the handler goes on to its next statement *)
Pass == Response(0, "")

(* Teacher routes.  Without session["admin"] each of them redirects to the *)
(* login page and touches nothing.  The session is a cookie of the client: *)
(* a request comes from the teacher's browser, with its flag, or from a    *)
(* client that never logged in.                                            *)
Cookies == {session, FALSE}


admin_login ==
  /\ \E method \in {"GET", "POST"}, pwd \in Passwords :
       IF method = "GET"
         THEN UNCHANGED session /\ response' = Response(200, "ADMIN_LOGIN_HTML")
       ELSE IF pwd = ADMIN_PASSWORD
         THEN session' = TRUE /\ response' = redirect("admin")
       ELSE UNCHANGED session /\ response' = Response(200, "Wrong password")
  /\ UNCHANGED <<clock, settings, tokens, attendance, sqlite_sequence, req>>

admin_activate_open ==
  /\ \E raw \in SlotInputs :
       LET slot == Strip(raw)
       IN  /\ IF slot # <<>> THEN set_setting("active_slot", slot)
                             ELSE UNCHANGED settings
           /\ response' = redirect("admin")
  /\ UNCHANGED <<clock, tokens, attendance, sqlite_sequence, session, req>>

admin_activate ==
  /\ \E admin \in Cookies :
       IF ~admin
         THEN UNCHANGED settings /\ response' = redirect("admin_login")
         ELSE \E raw \in SlotInputs :
                LET slot == Strip(raw)
                IN  /\ IF slot # <<>> THEN set_setting("active_slot", slot)
                                      ELSE UNCHANGED settings
                    /\ response' = redirect("admin")
  /\ UNCHANGED <<clock, tokens, attendance, sqlite_sequence, session, req>>

admin_deactivate ==
  /\ \E admin \in Cookies :
       IF ~admin
         THEN UNCHANGED settings /\ response' = redirect("admin_login")
         ELSE clear_setting("active_slot") /\ response' = redirect("admin")
  /\ UNCHANGED <<clock, tokens, attendance, sqlite_sequence, session, req>>

admin_generate_inactive ==
  /\ LET active == get_setting("active_slot")
         token == make_token(active, clock)
         tab == store_token(tokens, token, active, clock)
     IN  \E admin \in Cookies :
           IF ~admin
             THEN UNCHANGED tokens /\ response' = redirect("admin_login")
           ELSE /\ Len(tab) <= MaxTokens
                /\ tokens' = tab
                /\ response' = redirect("admin")
  /\ UNCHANGED <<clock, settings, attendance, sqlite_sequence, session, req>>

(* The teacher's requests come one after the other from one browser, so    *)
(* the handler is one step: it reads the active slot and the clock and     *)
(* commits the token row.                                                  *)
admin_generate ==
  /\ LET active == get_setting("active_slot")
         token == make_token(active, clock)
         tab == store_token(tokens, token, active, clock)
     IN  \E admin \in Cookies :
           IF ~admin
             THEN UNCHANGED tokens /\ response' = redirect("admin_login")
           ELSE IF active = None
             THEN /\ UNCHANGED tokens
                  /\ response' = Response(200, "ADMIN_DASH_HTML")
           ELSE /\ Len(tab) <= MaxTokens
                /\ tokens' = tab
                /\ response' = redirect("admin")
  /\ UNCHANGED <<clock, settings, attendance, sqlite_sequence, session, req>>

admin_clear ==
  /\ \E admin \in Cookies :
       IF ~admin
         THEN UNCHANGED attendance /\ response' = redirect("admin_login")
         ELSE \E action \in {"clear_all", "clear_slot", ""} :
                /\ response' = redirect("admin_view")
                /\ IF action = "clear_all"
                     THEN attendance' = clear_records(attendance, TRUE, None)
                   ELSE IF action = "clear_slot"
                     THEN \E raw \in SlotInputs :
                            LET slot == Strip(raw)
                            IN  IF slot # <<>>
                                  THEN attendance' =
                                         clear_records(attendance, FALSE, slot)
                                  ELSE UNCHANGED attendance
                   ELSE UNCHANGED attendance
  /\ UNCHANGED <<clock, settings, tokens, sqlite_sequence, session, req>>

---------------------------------------------------------------------------
(* /submit *)

ForgedSig == Sign("guess", [slot |-> <<"classA">>], 0)

Issued == {tokens[i].token : i \in 1..Len(tokens)}

(* what a client can build from a token it has seen without the secret *)
Tampered(k) ==
  {[k EXCEPT !.payload = [slot |-> s]] : s \in Slots}
    \cup {[k EXCEPT !.ts = clock]}
    \cup {[k EXCEPT !.sig = g] : g \in {j.sig : j \in Issued} \cup {ForgedSig}}

Presentable ==
  Issued \cup UNION {Tampered(k) : k \in Issued} \cup {NoToken, Garbage}

Return(r, resp) ==
  /\ req' = [req EXCEPT ![r] = IdleReq]
  /\ response' = resp

token_gate_active_only(token, now, tab) ==
  LET res == decode_token(token, now)
      slot == res.data.slot
      token_row == get_token_for_slot(tab, slot)
  IN  IF token = NoToken THEN Response(400, "Missing token")
      ELSE IF res.err = "SignatureExpired" THEN Response(400, "Token expired")
      ELSE IF res.err = "BadSignature" THEN Response(400, "Invalid token")
      ELSE IF \/ token_row = None
              \/ token_row[1] # token
              \/ slot # get_setting("active_slot")
        THEN Response(403, "This attendance link is not active")
      ELSE Pass

(* submit, lines 329-342: the token from the query string or the form,     *)
(* decode_token against the clock, the registry lookup                     *)
token_gate(token, now, tab) ==
  LET res == decode_token(token, now)
      slot == res.data.slot
      token_row == get_token_for_slot(tab, slot)
  IN  IF token = NoToken THEN Response(400, "Missing token")
      ELSE IF res.err = "SignatureExpired" THEN Response(400, "Token expired")
      ELSE IF res.err = "BadSignature" THEN Response(400, "Invalid token")
      ELSE IF token_row = None \/ token_row[1] # token
        THEN Response(403, "This attendance link is not active")
      ELSE Pass

(* submit, lines 343-350: the GET page and the teacher PIN *)
pin_gate_unstripped(method, form) ==
  IF method = "GET" THEN Response(200, "SUBMIT_HTML")
  ELSE IF form.teacher_pin # TEACHER_PIN
    THEN Response(200, "Incorrect Teacher PIN")
  ELSE Pass

pin_gate(method, form) ==
  LET teacher_pin == Strip(form.teacher_pin)
  IN  IF method = "GET" THEN Response(200, "SUBMIT_HTML")
      ELSE IF teacher_pin # TEACHER_PIN
        THEN Response(200, "Incorrect Teacher PIN")
      ELSE Pass

submit_gates_pin_first(token, method, form, now, tab) ==
  IF method = "POST" /\ pin_gate(method, form) # Pass
    THEN pin_gate(method, form)
  ELSE IF token_gate(token, now, tab) # Pass
    THEN token_gate(token, now, tab)
  ELSE pin_gate(method, form)

(* submit, lines 329-350, for a request carrying this token, method and    *)
(* form: the answer of the first check that fails, Pass if none does.      *)
submit_gates(token, method, form, now, tab) ==
  IF token_gate(token, now, tab) # Pass
    THEN token_gate(token, now, tab)
    ELSE pin_gate(method, form)

(* The inputs are drawn as the handler reads them: a request that fails at *)
(* the token never has its method or its form read.                        *)
submit_check(r) ==
  /\ req[r].pc = "idle"
  /\ \E token \in Presentable :
       IF token_gate(token, clock, tokens) # Pass
         THEN Return(r, submit_gates(token, "GET", EmptyForm, clock, tokens))
         ELSE \E method \in {"GET", "POST"} : \E form \in Forms(method) :
                IF submit_gates(token, method, form, clock, tokens) # Pass
                  THEN Return(r, submit_gates(token, method, form,
                                              clock, tokens))
                  ELSE \E dev \in Devices :
                    /\ req' = [req EXCEPT ![r] =
                                 [pc |-> "checked", token |-> token,
                                  ip |-> dev.ip, ua |-> dev.ua,
                                  slot |-> decode_token(token, clock).data.slot,
                                  student_name |-> Strip(form.student_name),
                                  roll |-> Strip(form.roll),
                                  device_cid |-> <<>>]]
                    /\ response' = Pass
  /\ UNCHANGED <<clock, settings, tokens, attendance, sqlite_sequence,
                 session>>

(* submit, lines 351-354: the fingerprint and the duplicate query *)
submit_query(r) ==
  /\ req[r].pc = "checked"
  /\ LET q == req[r]
         device_cid == make_device_cid(q.ip, q.ua)
         df == query_records(attendance, q.slot)
     IN  IF already_recorded(df, device_cid)
           THEN Return(r, Response(400, "Attendance already recorded"))
           ELSE /\ req' = [req EXCEPT ![r].pc = "insert",
                                      ![r].device_cid = device_cid]
                /\ response' = Pass
  /\ UNCHANGED <<clock, settings, tokens, attendance, sqlite_sequence,
                 session>>

(* submit, lines 355-356: insert_record; the id is AUTOINCREMENT *)
submit_insert(r) ==
  /\ req[r].pc = "insert"
  /\ sqlite_sequence < MaxInserts
  /\ LET q == req[r]
     IN  attendance' = insert_record(attendance, sqlite_sequence + 1,
                                     q.student_name, q.roll, q.slot, clock,
                                     q.device_cid, q.ip, q.ua)
  /\ sqlite_sequence' = sqlite_sequence + 1
  /\ Return(r, Response(200, "Attendance recorded"))
  /\ UNCHANGED <<clock, settings, tokens, session>>

---------------------------------------------------------------------------
(* The threaded server: a handler may run between two database accesses of *)
(* another.                                                                *)

Next ==
  \/ Tick
  \/ admin_login
  \/ admin_activate
  \/ admin_deactivate
  \/ admin_generate
  \/ admin_clear
  \/ \E r \in Reqs : submit_check(r)
  \/ \E r \in Reqs : submit_query(r)
  \/ \E r \in Reqs : submit_insert(r)

Spec == Init /\ [][Next]_vars

(* The threaded server during one class session: the teacher activates no  *)
(* slot but classA.                                                        *)
OneSession == get_setting("active_slot") \in {None, <<"classA">>}

ThreadNext ==
  \/ Tick
  \/ admin_login
  \/ admin_activate /\ OneSession'
  \/ admin_deactivate
  \/ admin_generate
  \/ admin_clear
  \/ \E r \in Reqs : submit_check(r)
  \/ \E r \in Reqs : submit_query(r)
  \/ \E r \in Reqs : submit_insert(r)

ThreadSpec == Init /\ [][ThreadNext]_vars

(* Requests handled one at a time: a handler starts only when no other is  *)
(* under way.                                                              *)
Quiet == \A r \in Reqs : req[r].pc = "idle"

SerialNext ==
  \/ Tick
  \/ Quiet /\ admin_login
  \/ Quiet /\ admin_activate
  \/ Quiet /\ admin_deactivate
  \/ Quiet /\ admin_generate
  \/ Quiet /\ admin_clear
  \/ \E r \in Reqs : Quiet /\ submit_check(r)
  \/ \E r \in Reqs : submit_query(r)
  \/ \E r \in Reqs : submit_insert(r)

SerialSpec == Init /\ [][SerialNext]_vars

---------------------------------------------------------------------------
(* Properties *)

Revoked == Response(403, "This attendance link is not active")

Duplicate == Response(400, "Attendance already recorded")

Recorded == Response(200, "Attendance recorded")

WrongPin == Response(200, "Incorrect Teacher PIN")

(* the ledger holds a record for the slot from the device (ip, ua) *)
HasRecordFrom(tab, slot, ip, ua) ==
  \E i \in 1..Len(tab) :
    tab[i].slot = slot /\ tab[i].ip = ip /\ tab[i].user_agent = ua

C2_IssuedTokenIsCurrent ==
  [][tokens' # tokens =>
       LET row == tokens'[Len(tokens')]
       IN  /\ get_token_for_slot(tokens', row.slot)
                = <<row.token, row.created_at>>
           /\ token_gate(row.token, clock', tokens') = Pass]_vars

(* C3: the ledger never holds two records with the same slot and device    *)
(* fingerprint, however the steps of concurrent submissions interleave.    *)
C3_OneRecordPerDevice ==
  \A i, j \in 1..Len(attendance) :
    i # j => ~ ( /\ attendance[i].slot = attendance[j].slot
                /\ attendance[i].device_cid = attendance[j].device_cid )

(* C4: with requests handled one at a time, a submission that passed the   *)
(* token and PIN checks is recorded, by exactly one appended row carrying  *)
(* its fields, when the ledger has no record for its slot from its device, *)
(* and is answered "already recorded" with the ledger untouched when it    *)
(* has one, whatever name and roll it carries; no slot ever has two        *)
(* records from one device.                                                *)
C4_FirstAcceptedThenDuplicate ==
  [][\A r \in Reqs :
       /\ (req[r].pc = "checked" /\ req'[r].pc # "checked") =>
            IF HasRecordFrom(attendance, req[r].slot, req[r].ip, req[r].ua)
              THEN /\ response' = Duplicate
                   /\ req'[r].pc = "idle"
                   /\ attendance' = attendance
              ELSE /\ req'[r].pc = "insert"
                   /\ attendance' = attendance
       /\ (req[r].pc = "insert" /\ req'[r].pc # "insert") =>
            /\ ~HasRecordFrom(attendance, req[r].slot, req[r].ip, req[r].ua)
            /\ Len(attendance') = Len(attendance) + 1
            /\ SubSeq(attendance', 1, Len(attendance)) = attendance
            /\ LET row == attendance'[Len(attendance')]
               IN  /\ row.slot = req[r].slot
                   /\ row.ip = req[r].ip /\ row.user_agent = req[r].ua
                   /\ row.student_name = req[r].student_name
                   /\ row.roll = req[r].roll
            /\ response' = Recorded
            /\ C3_OneRecordPerDevice']_vars

C4_Witness ==
  /\ response = Duplicate
  /\ Len(attendance) = 1
  /\ Quiet

(* C5: a stored token decodes to the slot it was issued for at every time  *)
(* from its issue up to and including its issue plus TTL, and after that   *)
(* decoding raises SignatureExpired and the submission gets "Token         *)
(* expired".                                                               *)
C5_TokenLifetime ==
  \A i \in 1..Len(tokens) :
    LET k == tokens[i].token
    IN  /\ clock >= k.ts
        /\ IF clock - k.ts <= QR_TTL_SECONDS
             THEN decode_token(k, clock)
                    = [err |-> "", data |-> [slot |-> tokens[i].slot]]
             ELSE /\ decode_token(k, clock).err = "SignatureExpired"
                  /\ token_gate(k, clock, tokens)
                       = Response(400, "Token expired")

C5_Witness ==
  /\ response = Response(400, "Token expired")
  /\ \E i \in 1..Len(tokens) :
       clock - tokens[i].token.ts = QR_TTL_SECONDS + 1

(* C6: whenever a submission appends a record, also with token issuance    *)
(* running between its check and its insert, the token it presented is     *)
(* what get_token_for_slot returns for the record's slot at that moment,   *)
(* and the record's slot is the slot in the token.                         *)
C6_RecordMatchesBinding ==
  [][\A r \in Reqs :
       (req[r].pc = "insert" /\ req'[r].pc # "insert") =>
         LET row == attendance'[Len(attendance')]
             token_row == get_token_for_slot(tokens, row.slot)
         IN  /\ Len(attendance') = Len(attendance) + 1
             /\ token_row # None
             /\ token_row[1] = req[r].token
             /\ row.slot = req[r].token.payload.slot]_vars

C6_Witness ==
  /\ response = Recorded
  /\ Len(tokens) = 2
  /\ tokens[1].slot = tokens[2].slot
  /\ attendance # <<>>
  /\ attendance[Len(attendance)].timestamp >= tokens[2].created_at

(* C7, as claimed: once the ledger holds a record for a slot from a        *)
(* device, the duplicate check rejects that pair in every later state.     *)
C7_DuplicateIsPermanent ==
  [][\A i \in 1..Len(attendance) :
       already_recorded(query_records(attendance', attendance[i].slot),
                        attendance[i].device_cid)]_vars

(* C7, amended: the duplicate check keeps rejecting the pair across every  *)
(* step but a purge by the logged-in teacher, and a submission that        *)
(* reaches the duplicate check while the pair's record is in the ledger is *)
(* answered "already recorded" and appends nothing.                        *)
C7_DuplicateUntilPurged ==
  [][/\ \A i \in 1..Len(attendance) :
          \/ already_recorded(query_records(attendance', attendance[i].slot),
                              attendance[i].device_cid)
          \/ session /\ response' = redirect("admin_view")
     /\ \A r \in Reqs :
          ( /\ req[r].pc = "checked" /\ req'[r].pc # "checked"
            /\ HasRecordFrom(attendance, req[r].slot, req[r].ip, req[r].ua) )
          => response' = Duplicate /\ attendance' = attendance]_vars

C7_Witness ==
  /\ response = Duplicate
  /\ sqlite_sequence = 2
  /\ Len(attendance) = 1

(* C8, as claimed: with a token that passes the token checks, a POST whose *)
(* PIN field differs from the teacher PIN is answered "Incorrect Teacher   *)
(* PIN".                                                                   *)
C8_DifferentPinRejected ==
  \A k \in Issued : \A form \in PostForms :
    (token_gate(k, clock, tokens) = Pass /\ form.teacher_pin # TEACHER_PIN)
    => pin_gate("POST", form) = WrongPin

(* C8, amended: the PIN is compared after trimming whitespace: a POST      *)
(* whose trimmed PIN differs from the teacher PIN is answered "Incorrect   *)
(* Teacher PIN", and that answer leaves the ledger, the registry, the      *)
(* active slot and the requests under way as they were, so the token       *)
(* passes the token checks as before; with a PIN that trims to the teacher *)
(* PIN the same token passes the PIN check.                                *)
C8_WrongPinKeepsToken ==
  /\ [](\A k \in Issued : \A form \in PostForms :
          token_gate(k, clock, tokens) = Pass =>
            IF Strip(form.teacher_pin) # TEACHER_PIN
              THEN pin_gate("POST", form) = WrongPin
              ELSE pin_gate("POST", form) = Pass)
  /\ [][response' = WrongPin =>
          /\ attendance' = attendance /\ sqlite_sequence' = sqlite_sequence
          /\ tokens' = tokens /\ settings' = settings
          /\ req' = req /\ clock' = clock
          /\ \A k \in Issued :
               token_gate(k, clock', tokens') = token_gate(k, clock, tokens)
          /\ \E k \in Issued : token_gate(k, clock, tokens) = Pass]_vars

C8_Witness ==
  /\ response = WrongPin
  /\ \E k \in Issued : token_gate(k, clock, tokens) = Pass

(* C9: a submission that passed the token and PIN checks goes on to its    *)
(* insert whenever the ledger has no record for its slot from its own      *)
(* device, whatever records other devices have there, and its insert       *)
(* appends its own record and leaves the token registry as it was.         *)
C9_DevicesIndependent ==
  [][\A r \in Reqs :
       /\ ( /\ req[r].pc = "checked" /\ req'[r].pc # "checked"
            /\ ~HasRecordFrom(attendance, req[r].slot, req[r].ip, req[r].ua) )
          => req'[r].pc = "insert" /\ tokens' = tokens
       /\ (req[r].pc = "insert" /\ req'[r].pc # "insert") =>
            /\ attendance' # attendance
            /\ HasRecordFrom(attendance', req[r].slot, req[r].ip, req[r].ua)
            /\ response' = Recorded
            /\ tokens' = tokens]_vars

C9_Witness ==
  \E i, j \in 1..Len(attendance) :
    /\ attendance[i].slot = attendance[j].slot
    /\ attendance[i].device_cid # attendance[j].device_cid
    /\ get_token_for_slot(tokens, attendance[i].slot) # None
    /\ Len(SelectSeq(tokens, LAMBDA row : row.slot = attendance[i].slot)) = 1

(* C10: a token string a client can build without the secret (another slot *)
(* in the payload, another timestamp, another signature, no signature)     *)
(* that is not a stored token is answered "Invalid token".                 *)
C10_TamperedTokenInvalid ==
  \A t \in Presentable \ (Issued \cup {NoToken}) :
    token_gate(t, clock, tokens) = Response(400, "Invalid token")

C10_Witness ==
  /\ response = Response(400, "Invalid token")
  /\ \E k \in Issued : k.ts < clock /\ [k EXCEPT !.ts = clock] \notin Issued

(* C11: admin_generate stores a token only when a slot is active, and the   *)
(* row it stores, and the token in it, carry exactly the active slot, the  *)
(* rows stored before staying as they were; with no slot active it answers *)
(* with the dashboard and leaves the registry as it was.                   *)
C11_IssueOnlyWhenActive ==
  [][/\ tokens' # tokens =>
          LET active == get_setting("active_slot")
              row == tokens'[Len(tokens')]
          IN  /\ session
              /\ active # None
              /\ row.slot = active
              /\ row.token = make_token(active, clock)
              /\ decode_token(row.token, clock).data.slot = active
              /\ \A i \in 1..(Len(tokens') - 1) :
                   \E j \in 1..Len(tokens) : tokens[j] = tokens'[i]
              /\ settings' = settings
     /\ (admin_generate /\ get_setting("active_slot") = None) =>
          /\ tokens' = tokens
          /\ response' \in {Response(200, "ADMIN_DASH_HTML"),
                            redirect("admin_login")}]_vars

C11_Witness ==
  /\ response = Response(200, "ADMIN_DASH_HTML")
  /\ get_setting("active_slot") = None
  /\ tokens # <<>>

(* C12: admin_activate by the logged-in teacher with a slot that is not    *)
(* empty makes that slot the one live slot, whatever was live before, and  *)
(* leaves the token registry and the ledger as they were: a slot with no   *)
(* token stored has none after the activation either.                      *)
C12_ActivateSetsLiveSlot ==
  [][(session /\ response' = redirect("admin") /\ admin_activate) =>
       /\ tokens' = tokens
       /\ attendance' = attendance
       /\ sqlite_sequence' = sqlite_sequence
       /\ \A s \in Slots :
            get_token_for_slot(tokens, s) = None
              => get_token_for_slot(tokens', s) = None
       /\ \A raw \in SlotInputs :
            (Strip(raw) # <<>> /\ set_setting("active_slot", Strip(raw))) =>
              /\ get_setting("active_slot")' = Strip(raw)
              /\ Cardinality({row \in settings' : row.key = "active_slot"})
                   = 1]_vars

C12_Witness ==
  /\ response = redirect("admin")
  /\ get_setting("active_slot") = <<"classB">>
  /\ tokens # <<>>
  /\ \A i \in 1..Len(tokens) : tokens[i].slot = <<"classA">>
  /\ get_token_for_slot(tokens, <<"classB">>) = None

(* C13: admin_deactivate by the logged-in teacher leaves no slot live and  *)
(* leaves the token registry and the ledger as they were; whatever slot is *)
(* live or none, the token get_token_for_slot returns for a slot passes    *)
(* the token checks while it is within its TTL, the teacher PIN passes the *)
(* PIN check, and a request that passed both is recorded when the ledger   *)
(* has no record for its slot from its device.                             *)
C13_DeactivateKeepsBindings ==
  /\ [](\A s \in Slots :
          LET token_row == get_token_for_slot(tokens, s)
          IN  (token_row # None /\ clock - token_row[1].ts <= QR_TTL_SECONDS)
                => /\ token_gate(token_row[1], clock, tokens) = Pass
                   /\ \A form \in PostForms :
                        form.teacher_pin = TEACHER_PIN
                          => pin_gate("POST", form) = Pass)
  /\ [][/\ (session /\ response' = redirect("admin") /\ admin_deactivate) =>
             /\ get_setting("active_slot")' = None
             /\ tokens' = tokens
             /\ attendance' = attendance
             /\ sqlite_sequence' = sqlite_sequence
        /\ \A r \in Reqs :
             /\ ( /\ req[r].pc = "checked" /\ req'[r].pc # "checked"
                  /\ ~HasRecordFrom(attendance, req[r].slot,
                                    req[r].ip, req[r].ua) )
                => req'[r].pc = "insert"
             /\ (req[r].pc = "insert" /\ req'[r].pc # "insert")
                => /\ response' = Recorded
                   /\ Len(attendance') = Len(attendance) + 1]_vars

C13_Witness ==
  /\ response = Recorded
  /\ get_setting("active_slot") = None
  /\ tokens # <<>>
  /\ attendance # <<>>
  /\ attendance[Len(attendance)].timestamp = clock

(* C14: every step leaves the ledger as it was, or appends one record to   *)
(* it as the insert of a submission answered "Attendance recorded", or is  *)
(* a purge by the logged-in teacher that leaves either nothing or exactly  *)
(* the records of the slots other than one, each unchanged and in order;   *)
(* the append and the purge leave the token registry and the active slot   *)
(* as they were.                                                           *)
C14_LedgerAppendOnly ==
  [][/\ \/ attendance' = attendance
        \/ /\ Len(attendance') = Len(attendance) + 1
           /\ SubSeq(attendance', 1, Len(attendance)) = attendance
           /\ response' = Recorded
           /\ \E r \in Reqs : req[r].pc = "insert" /\ req'[r].pc = "idle"
           /\ tokens' = tokens
           /\ settings' = settings
        \/ /\ session
           /\ response' = redirect("admin_view")
           /\ admin_clear
           /\ \/ attendance' = <<>>
              \/ \E s \in Slots :
                   attendance'
                     = SelectSeq(attendance, LAMBDA row : row.slot # s)
     /\ response' = redirect("admin_view") =>
          /\ tokens' = tokens
          /\ settings' = settings
          /\ sqlite_sequence' = sqlite_sequence
          /\ req' = req]_vars

C14_Witness ==
  /\ response = redirect("admin_view")
  /\ sqlite_sequence = 2
  /\ Len(attendance) = 1
  /\ attendance[1].id = 1
  /\ Len(tokens) = 2

(* C15: a POST to /submit is answered by the first check that fails, in    *)
(* the order token verification, registry binding, PIN, duplicate: with a  *)
(* token that fails verification the answer is the verification error,     *)
(* with a verified token that is not the slot's stored one it is the 403,  *)
(* whatever the PIN; with a token that passes and a wrong PIN it is        *)
(* "Incorrect Teacher PIN" and the ledger is not consulted, whatever       *)
(* records it holds; "already recorded" is only ever the answer to a       *)
(* request that has passed the PIN check.                                  *)
C15_FirstFailureReported ==
  /\ [](\A token \in Presentable, form \in PostForms :
          LET res == decode_token(token, clock)
              token_row == get_token_for_slot(tokens, res.data.slot)
              answer == submit_gates(token, "POST", form, clock, tokens)
          IN  IF token = NoToken
                THEN answer = Response(400, "Missing token")
              ELSE IF res.err = "SignatureExpired"
                THEN answer = Response(400, "Token expired")
              ELSE IF res.err = "BadSignature"
                THEN answer = Response(400, "Invalid token")
              ELSE IF token_row = None \/ token_row[1] # token
                THEN answer = Revoked
              ELSE IF Strip(form.teacher_pin) # TEACHER_PIN
                THEN answer = WrongPin
              ELSE answer = Pass)
  /\ [][/\ response' = WrongPin => req' = req /\ attendance' = attendance
        /\ response' = Duplicate =>
             \E r \in Reqs : req[r].pc = "checked" /\ req'[r].pc = "idle"
        /\ \A r \in Reqs :
             (req[r].pc = "idle" /\ req'[r].pc # "idle") =>
               /\ req'[r].pc = "checked"
               /\ token_gate(req'[r].token, clock, tokens) = Pass]_vars

C15_Witness ==
  /\ response = WrongPin
  /\ \E k \in Issued :
       /\ token_gate(k, clock, tokens) = Pass
       /\ \A dev \in Devices :
            HasRecordFrom(attendance, k.payload.slot, dev.ip, dev.ua)
  /\ \E k \in Issued : token_gate(k, clock, tokens) = Revoked

(* what /submit can answer *)
SubmitAnswers ==
  { Response(400, "Missing token"), Response(400, "Token expired"),
    Response(400, "Invalid token"), Revoked, Response(200, "SUBMIT_HTML"),
    WrongPin, Duplicate, Recorded }

(* C16: every step of a /submit request leaves the token registry, the     *)
(* active slot and the session as they were; the step answered             *)
(* "Attendance recorded" appends exactly one record, with the next id, to  *)
(* the ledger, and every other step of /submit, GET or POST, whatever its  *)
(* answer, leaves the ledger as it was.                                    *)
C16_SubmitWritesOnlyOnSuccess ==
  [][(response' \in SubmitAnswers \/ req' # req) =>
       /\ tokens' = tokens
       /\ settings' = settings
       /\ session' = session
       /\ IF response' = Recorded
            THEN /\ Len(attendance') = Len(attendance) + 1
                 /\ SubSeq(attendance', 1, Len(attendance)) = attendance
                 /\ sqlite_sequence' = sqlite_sequence + 1
                 /\ attendance'[Len(attendance')].id = sqlite_sequence'
            ELSE /\ attendance' = attendance
                 /\ sqlite_sequence' = sqlite_sequence]_vars

C16_Witness ==
  /\ response = Response(200, "SUBMIT_HTML")
  /\ attendance # <<>>
  /\ \E r \in Reqs : req[r].pc = "insert"

(* C17: while the teacher's browser has no admin flag no step changes the  *)
(* active slot, the token registry or the ledger; a request sent to the    *)
(* login page leaves all of them, and the flag, as they were, whoever is   *)
(* logged in elsewhere; the active slot and the registry change, and the   *)
(* ledger shrinks, only with the flag set; and the flag changes only by    *)
(* being set by the login step that answers with the redirect to the       *)
(* dashboard, never by the one that answers "Wrong password".              *)
C17_AdminNeedsSession ==
  [][/\ ~session =>
          /\ settings' = settings
          /\ tokens' = tokens
          /\ attendance' = attendance
     /\ response' = redirect("admin_login") =>
          /\ settings' = settings
          /\ tokens' = tokens
          /\ attendance' = attendance
          /\ sqlite_sequence' = sqlite_sequence
          /\ session' = session
     /\ ( \/ settings' # settings
          \/ tokens' # tokens
          \/ Len(attendance') < Len(attendance) ) => session
     /\ session' # session =>
          /\ session'
          /\ admin_login
          /\ response' = redirect("admin")
     /\ response' = Response(200, "Wrong password") => session' = session]_vars

C17_Witness ==
  /\ response = redirect("admin_login")
  /\ session
  /\ get_setting("active_slot") # None
  /\ tokens # <<>>
  /\ attendance # <<>>

(* C18: every stored token stays stored, with its slot, across every step, *)
(* so a slot for which get_token_for_slot returns a row has one in every   *)
(* later state; a purge and a deactivation leave the registry as it was;   *)
(* and the slot column of every row is the slot sealed in the row's token. *)
C18_RegistryOnlyGrows ==
  /\ [](\A i \in 1..Len(tokens) :
          /\ tokens[i].slot = tokens[i].token.payload.slot
          /\ tokens[i].token = make_token(tokens[i].slot, tokens[i].token.ts))
  /\ [][/\ \A i \in 1..Len(tokens) : \E j \in 1..Len(tokens') :
             /\ tokens'[j].token = tokens[i].token
             /\ tokens'[j].slot = tokens[i].slot
        /\ \A s \in Slots :
             get_token_for_slot(tokens, s) # None
               => get_token_for_slot(tokens', s) # None
        /\ response' = redirect("admin_view") => tokens' = tokens
        /\ ( /\ get_setting("active_slot") # None
             /\ get_setting("active_slot")' = None ) => tokens' = tokens]_vars

C18_Witness ==
  /\ Len(tokens) = 2
  /\ tokens[1].slot = tokens[2].slot
  /\ get_setting("active_slot") = None
  /\ attendance = <<>>
  /\ sqlite_sequence > 0

====
